---- MODULE Spec2Model ----
(***************************************************************************)
(* A model of the huginn WebSocket hub (src/huginn.go).                    *)
(*                                                                         *)
(* The hub is a registry of clients (a sync.Map from UUID to *Client), a   *)
(* table of event handlers, a broadcast engine (Emit / sendMessage) and    *)
(* the per-connection read loop (Server).  An optional MongoDB collection  *)
(* mirrors the metadata of every client.                                   *)
(*                                                                         *)
(* Every exported method is cut into the steps at which it touches shared  *)
(* state (one sync.Map operation, one connection operation, one MongoDB    *)
(* operation), run by a task (a goroutine) that has a program counter and  *)
(* locals.  Under Spec the calls are made one at a time: a call starts,    *)
(* and a read loop's pending ReadJSON returns, only while every other task *)
(* is idle or blocked in ReadJSON.  Every connection handed to the hub is  *)
(* a newly upgraded one.                                                   *)
(*                                                                         *)
(* SpecMeta and SpecSearch do the same for the metadata calls and for      *)
(* SearchClient.  SpecAccept, SpecMirror, SpecEvict, SpecRace, SpecEmitOne *)
(* and SpecLive interleave the steps of the calls of two goroutines        *)
(* freely; SpecLive adds a fair scheduler.  A goroutine that panics ends   *)
(* the process: it stays at "panic" and nothing runs after it.             *)
(***************************************************************************)
EXTENDS Integers, Sequences, FiniteSets, TLC

\* Bounds of the model.
MaxIDs == 2         \* UUIDs generated during one run
MaxConns == 2       \* physical connections opened during one run
NumTasks == 2       \* goroutines calling into the hub
MaxTargets == 2     \* length of the clients list passed to Emit

IDs == 1..MaxIDs
Conns == 1..MaxConns
Tasks == 1..NumTasks

\* Metadata keys and values the callers use.
Keys == {"k1", "k2"}
Vals == {"v1", "v2"}
NoVal == "absent"

\* Event names seen on the wire, and those the application binds with On
\* ("nope" is left without a handler).
EventNames == {"chat", "nope"}
HandlerNames == {"chat"}

\* Emit modes: the iota constants of huginn.go.
EmitAll == 0
EmitOnly == 1
EmitExcept == 2
Modes == {EmitAll, EmitOnly, EmitExcept}

\* Payloads handed to Emit: "unsupported" stands for a Go value that
\* json.Marshal rejects (a channel, a func, a NaN).
Payloads == {"hello", "unsupported"}
NoMsg == [event |-> "", data |-> ""]
EmitMsgs == {[event |-> "news", data |-> p] : p \in Payloads}
InMsgs == {[event |-> e, data |-> "1"] : e \in EventNames}

EmptyData == [k \in Keys |-> NoVal]
NoDoc == [present |-> FALSE, data |-> EmptyData]

VARIABLES
    Clients,     \* keys of h.Clients (the sync.Map)
    connOf,      \* Client.Conn of the client created under each UUID (0: none yet)
    Data,        \* Client.Metadata.Data of each client
    closed,      \* connections on which Close has been called
    nconn,       \* physical connections opened so far
    issued,      \* UUIDs generated so far
    Events,      \* keys of h.Events
    DB,          \* h.DB != nil
    mirror,      \* the MongoDB collection: the document of each uuid
    connected,   \* the MongoDB client has not been disconnected
    pc,          \* where each task is
    loc          \* each task's arguments and locals

vars == <<Clients, connOf, Data, closed, nconn, issued, Events, DB, mirror,
          connected, pc, loc>>

hubVars == <<Clients, connOf, Data, closed, nconn, issued, Events, DB, mirror,
             connected>>

NoLoc ==
    [op |-> "none", id |-> 0, conn |-> 0, key |-> "", val |-> "",
     mode |-> EmitAll, clients |-> <<>>, msg |-> NoMsg,
     snap |-> {}, visited |-> {}, attempts |-> [i \in IDs |-> 0],
     failed |-> {}, found |-> FALSE, mongoErr |-> FALSE,
     calls |-> <<>>, handlerErr |-> FALSE, replies |-> <<>>]

----------------------------------------------------------------------------
\* NewHuginn: the collection is kept only when a URI is given and the
\* connection succeeds.
NewHuginn(mongoURI, connectOK) == mongoURI /= "" /\ connectOK

\* On: h.Events[event] = handler.
On(events, e) == events \cup {e}

\* The table the application fills, one On call per handler, before it
\* serves.
RECURSIVE Bind(_, _)
Bind(events, names) ==
    IF names = {} THEN events
    ELSE LET e == CHOOSE x \in names : TRUE
         IN Bind(On(events, e), names \ {e})

Init ==
    /\ Clients = {}
    /\ connOf = [i \in IDs |-> 0]
    /\ Data = [i \in IDs |-> EmptyData]
    /\ closed = {}
    /\ nconn = 0
    /\ issued = 0
    /\ Events = Bind({}, HandlerNames)
    /\ \E uri \in {"", "mongodb://db"}, ok \in BOOLEAN : DB = NewHuginn(uri, ok)
    /\ mirror = [i \in IDs |-> NoDoc]
    /\ connected = TRUE
    /\ pc = [t \in Tasks |-> "idle"]
    /\ loc = [t \in Tasks |-> NoLoc]

\* No call is in progress: every task is idle or blocked in ReadJSON.
Quiescent == \A u \in Tasks : pc[u] \in {"idle", "srv_read"}

\* The process runs: no goroutine has panicked.
Alive == \A u \in Tasks : pc[u] /= "panic"

\* t is the first idle task (idle tasks are alike: the first one makes the
\* next call).
FirstIdle(t) ==
    /\ pc[t] = "idle"
    /\ \A u \in Tasks : u < t => pc[u] /= "idle"

\* Task t may start a call when no call is in progress.
Free(t) == Quiescent /\ FirstIdle(t)

\* A MongoDB operation fails once the client is disconnected, and may fail
\* at any time before.
MongoResults == IF connected THEN {TRUE, FALSE} ELSE {FALSE}

----------------------------------------------------------------------------
\* sync.Map, as the set of its keys (the value under a key is the client
\* created under that UUID).
\* (a faulty Load, which finds every key)
LoadFindsAll(m, k) == TRUE
Load(m, k) == k \in m
Store(m, k) == m \cup {k}
\* (a faulty LoadAndDelete, which reports a key it did not find)
LoadAndDeleteAlwaysOK(m, k) == [ok |-> TRUE, map |-> m \ {k}]
\* (a faulty LoadAndDelete, which loads and leaves the key)
LoadAndDeleteKeeps(m, k) == [ok |-> k \in m, map |-> m]
LoadAndDelete(m, k) == [ok |-> k \in m, map |-> m \ {k}]

\* Range visits every key once; the callback's result says whether to go on.
RangeKeys(m, visited) == m \ visited

\* Range "does not necessarily correspond to any consistent snapshot": a key
\* stored while the iteration runs may or may not be visited.  With the keys
\* snap present when the iteration began, it may end once none of them is
\* left to visit.
\* (a faulty Range, which may end at any time)
RangeEndsAnyTime(m, snap, visited) == TRUE
RangeMayEnd(m, snap, visited) == RangeKeys(m \cap snap, visited) = {}

\* uuid.New(): a value never generated before, given the number n of those
\* generated so far.
\* (a faulty generator, which repeats itself)
uuidFixed(n) == 1
uuidNew(n) == n + 1

\* The result of the callback Emit hands to Range: Range goes on while it
\* is true.
\* (a faulty callback, which stops the iteration)
CallbackStops == FALSE
CallbackResult == TRUE

\* Where a task goes when sendMessage / AddClient / RemoveClient return.
AfterSend == IF CallbackResult THEN "emit_range" ELSE "done"
AfterAdd(t) == IF loc[t].op = "Server" THEN "srv_read" ELSE "done"
AfterRemove(t) == IF loc[t].op = "Emit" THEN AfterSend ELSE "done"

\* The locals of sendMessage go out of scope when it returns.
SendReturn(l) == [l EXCEPT !.id = 0, !.conn = 0, !.found = FALSE, !.mongoErr = FALSE]

\* The locals l of task t when RemoveClient returns to its caller.
RemoveReturn(t, l) == IF loc[t].op = "Emit" THEN SendReturn(l) ELSE l

Goto(t, label) == pc' = [pc EXCEPT ![t] = label]

----------------------------------------------------------------------------
\* The calls that are on their way to generate a UUID, and those on their
\* way to upgrade a connection: the model stops accepting at its bounds.
Adding == {u \in Tasks : pc[u] \in {"srv_upgrade", "add_store"}}
Upgrading == {u \in Tasks : pc[u] = "srv_upgrade"}

\* AddClient(conn), called with a connection the caller has just upgraded.
CallAddClient(t) ==
    /\ pc[t] = "idle"
    /\ issued + Cardinality(Adding) < MaxIDs
    /\ nconn + Cardinality(Upgrading) < MaxConns
    /\ nconn' = nconn + 1
    /\ loc' = [loc EXCEPT ![t] = [NoLoc EXCEPT !.op = "AddClient", !.conn = nconn + 1]]
    /\ Goto(t, "add_store")
    /\ UNCHANGED <<Clients, connOf, Data, closed, issued, Events, DB, mirror, connected>>

\* clientID := uuid.New(); h.Clients.Store(clientID, client)
AddStore(t) ==
    /\ pc[t] = "add_store"
    /\ LET id == uuidNew(issued) IN
          /\ issued' = issued + 1
          /\ connOf' = [connOf EXCEPT ![id] = loc[t].conn]
          /\ Data' = [Data EXCEPT ![id] = EmptyData]
          /\ Clients' = Store(Clients, id)
          /\ loc' = [loc EXCEPT ![t].id = id]
    /\ Goto(t, IF DB THEN "add_insert" ELSE AfterAdd(t))
    /\ UNCHANGED <<closed, nconn, Events, DB, mirror, connected>>

\* h.DB.InsertOne(metadata): the document holds the metadata map as it is now.
AddInsert(t) ==
    /\ pc[t] = "add_insert"
    /\ \E ok \in MongoResults :
          /\ mirror' = IF ok
                       THEN [mirror EXCEPT ![loc[t].id] =
                                 [present |-> TRUE, data |-> Data[loc[t].id]]]
                       ELSE mirror
          /\ loc' = [loc EXCEPT ![t].mongoErr = ~ok /\ AfterAdd(t) = "done"]
    /\ Goto(t, AfterAdd(t))
    /\ UNCHANGED <<Clients, connOf, Data, closed, nconn, issued, Events, DB, connected>>

----------------------------------------------------------------------------
\* RemoveClient(clientID)
CallRemoveClient(t) ==
    /\ pc[t] = "idle"
    /\ \E id \in IDs :
          loc' = [loc EXCEPT ![t] = [NoLoc EXCEPT !.op = "RemoveClient", !.id = id,
                                                  !.snap = Clients]]
    /\ Goto(t, "rm_lad")
    /\ UNCHANGED hubVars

\* h.Clients.LoadAndDelete(clientID)
RemoveLoadAndDelete(t) ==
    /\ pc[t] = "rm_lad"
    /\ LET r == LoadAndDelete(Clients, loc[t].id) IN
          /\ Clients' = r.map
          /\ loc' = [loc EXCEPT ![t] =
                         IF r.ok THEN [@ EXCEPT !.found = TRUE, !.conn = connOf[loc[t].id]]
                         ELSE IF DB THEN [@ EXCEPT !.found = FALSE]
                         ELSE RemoveReturn(t, [@ EXCEPT !.found = FALSE])]
          /\ Goto(t, IF r.ok THEN "rm_close" ELSE IF DB THEN "rm_delete" ELSE AfterRemove(t))
    /\ UNCHANGED <<connOf, Data, closed, nconn, issued, Events, DB, mirror, connected>>

\* client.Conn.Close(): the connection is closed from then on (closing a
\* closed one returns an error, which the callers drop).
\* (a faulty Close, which leaves the connection open)
CloseKeepsOpen(cs, c) == cs
Close(cs, c) == cs \cup {c}

\* _ = client.Conn.Close()
RemoveClose(t) ==
    /\ pc[t] = "rm_close"
    /\ closed' = Close(closed, loc[t].conn)
    /\ loc' = [loc EXCEPT ![t] = IF DB THEN @ ELSE RemoveReturn(t, @)]
    /\ Goto(t, IF DB THEN "rm_delete" ELSE AfterRemove(t))
    /\ UNCHANGED <<Clients, connOf, Data, nconn, issued, Events, DB, mirror, connected>>

\* h.DB.DeleteOne({"uuid": clientID})
RemoveDelete(t) ==
    /\ pc[t] = "rm_delete"
    /\ \E ok \in MongoResults :
          /\ mirror' = IF ok THEN [mirror EXCEPT ![loc[t].id] = NoDoc] ELSE mirror
          /\ loc' = [loc EXCEPT ![t] = RemoveReturn(t, [@ EXCEPT !.mongoErr = ~ok])]
    /\ Goto(t, AfterRemove(t))
    /\ UNCHANGED <<Clients, connOf, Data, closed, nconn, issued, Events, DB, connected>>

----------------------------------------------------------------------------
\* The metadata map of one client: m[key] = val, delete(m, key).
\* (a faulty write, which replaces the map)
mapSetAlone(m, key, val) == [k \in Keys |-> IF k = key THEN val ELSE NoVal]
mapSet(m, key, val) == [m EXCEPT ![key] = val]
mapDelete(m, key) == [m EXCEPT ![key] = NoVal]

\* UpdateOne({"uuid": id}, {"$set": {"data.<key>": val}}) and
\* UpdateOne({"uuid": id}, {"$unset": {"data.<key>": ""}}): one field of the
\* matching document, and nothing when no document matches.
mongoSet(coll, id, key, val) ==
    IF coll[id].present
    THEN [coll EXCEPT ![id].data = mapSet(coll[id].data, key, val)]
    ELSE coll
mongoUnset(coll, id, key) ==
    IF coll[id].present
    THEN [coll EXCEPT ![id].data = mapDelete(coll[id].data, key)]
    ELSE coll

\* UpdateMetadata(clientID, key, val) and RemoveMetadata(clientID, key)
CallUpdateMetadata(t) ==
    /\ pc[t] = "idle"
    /\ \E id \in IDs, k \in Keys, v \in Vals :
          loc' = [loc EXCEPT ![t] = [NoLoc EXCEPT !.op = "UpdateMetadata", !.id = id,
                                                  !.key = k, !.val = v]]
    /\ Goto(t, "um_load")
    /\ UNCHANGED hubVars

CallRemoveMetadata(t) ==
    /\ pc[t] = "idle"
    /\ \E id \in IDs, k \in Keys :
          loc' = [loc EXCEPT ![t] = [NoLoc EXCEPT !.op = "RemoveMetadata", !.id = id,
                                                  !.key = k]]
    /\ Goto(t, "um_load")
    /\ UNCHANGED hubVars

\* h.Clients.Load(clientID)
MetadataLoad(t) ==
    /\ pc[t] = "um_load"
    /\ loc' = [loc EXCEPT ![t].found = Load(Clients, loc[t].id)]
    /\ Goto(t, IF Load(Clients, loc[t].id) THEN "um_set" ELSE "done")
    /\ UNCHANGED hubVars

\* The tasks that are at an access to the metadata map of client id: a write
\* of UpdateMetadata / RemoveMetadata, or InsertOne encoding the map.
MapAccess(id) ==
    {u \in Tasks : pc[u] \in {"um_set", "add_insert"} /\ loc[u].id = id}

\* client.Metadata.Data[key] = val, or delete(client.Metadata.Data, key).
\* The map is a plain Go map, written without a lock: when another task is
\* at an access to the same map, the write races with it, and the runtime
\* may end the process ("fatal error: concurrent map writes").
MetadataSet(t) ==
    /\ pc[t] = "um_set"
    /\ \/ /\ Data' = [Data EXCEPT ![loc[t].id] =
                         IF loc[t].op = "UpdateMetadata"
                         THEN mapSet(Data[loc[t].id], loc[t].key, loc[t].val)
                         ELSE mapDelete(Data[loc[t].id], loc[t].key)]
          /\ Goto(t, IF DB THEN "um_mongo" ELSE "done")
       \/ /\ MapAccess(loc[t].id) /= {t}
          /\ Goto(t, "panic")
          /\ UNCHANGED Data
    /\ UNCHANGED <<Clients, connOf, closed, nconn, issued, Events, DB, mirror, connected, loc>>

\* h.DB.UpdateOne(...): an error is logged and nothing else
MetadataMongo(t) ==
    /\ pc[t] = "um_mongo"
    /\ \E ok \in MongoResults :
          /\ mirror' = IF ~ok THEN mirror
                       ELSE IF loc[t].op = "UpdateMetadata"
                       THEN mongoSet(mirror, loc[t].id, loc[t].key, loc[t].val)
                       ELSE mongoUnset(mirror, loc[t].id, loc[t].key)
          /\ loc' = [loc EXCEPT ![t].mongoErr = ~ok]
    /\ Goto(t, "done")
    /\ UNCHANGED <<Clients, connOf, Data, closed, nconn, issued, Events, DB, connected>>

----------------------------------------------------------------------------
\* FindOne({"data.<key>": value}): the documents of the collection that match
\* the filter; the driver decodes one of them.
\* (a faulty lookup, which matches every document)
FindOneAnyDoc(coll, key, val) == {i \in IDs : coll[i].present}
FindOne(coll, key, val) == {i \in IDs : coll[i].present /\ coll[i].data[key] = val}

\* SearchClient(key, value)
CallSearchClient(t) ==
    /\ pc[t] = "idle"
    /\ \E k \in Keys, v \in Vals :
          loc' = [loc EXCEPT ![t] = [NoLoc EXCEPT !.op = "SearchClient", !.key = k,
                                                  !.val = v, !.snap = Clients]]
    /\ Goto(t, "sc_find")
    /\ UNCHANGED hubVars

\* err := h.DB.FindOne(ctx, filter).Decode(&result).  h.DB is used without a
\* nil test: on a hub without a collection the call dereferences a nil
\* *mongo.Collection and the goroutine panics.  Otherwise the call fails
\* (the error is returned), finds no document (ErrNoDocuments is returned),
\* or decodes a matching document.
SearchFind(t) ==
    /\ pc[t] = "sc_find"
    /\ IF ~DB
       THEN /\ Goto(t, "panic")
            /\ UNCHANGED loc
       ELSE \E ok \in MongoResults :
               LET docs == FindOne(mirror, loc[t].key, loc[t].val) IN
                  IF ok /\ docs /= {}
                  THEN \E m \in docs :
                          /\ loc' = [loc EXCEPT ![t].id = m]
                          /\ Goto(t, "sc_load")
                  ELSE /\ loc' = [loc EXCEPT ![t].mongoErr = ~ok]
                       /\ Goto(t, "done")
    /\ UNCHANGED hubVars

\* h.Clients.Load(result.UUID): the client, or the error "client not found
\* in active connections"
SearchLoad(t) ==
    /\ pc[t] = "sc_load"
    /\ loc' = [loc EXCEPT ![t].found = Load(Clients, loc[t].id),
                          ![t].conn = IF Load(Clients, loc[t].id)
                                      THEN connOf[loc[t].id] ELSE 0]
    /\ Goto(t, "done")
    /\ UNCHANGED hubVars

----------------------------------------------------------------------------
\* json.Marshal(msg): an error for a value JSON cannot hold; omitempty drops
\* an empty member.
jsonMarshal(msg) ==
    IF msg.data = "unsupported"
    THEN [err |-> TRUE, bytes |-> <<>>]
    ELSE [err |-> FALSE,
          bytes |-> (IF msg.event = "" THEN <<>> ELSE <<<<"event", msg.event>>>>)
                    \o (IF msg.data = "" THEN <<>> ELSE <<<<"data", msg.data>>>>)]

\* WriteMessage fails on a closed connection, and may fail on an open one
\* (the peer is gone, the deadline passes).
WriteResults(c) == IF c \in closed THEN {FALSE} ELSE {TRUE, FALSE}

\* clientSet / excludeSet: the set built from the clients list.
RECURSIVE clientSet(_)
clientSet(clients) ==
    IF clients = <<>> THEN {}
    ELSE {Head(clients)} \cup clientSet(Tail(clients))

\* The callback Emit hands to Range: whether key is sent the message.
\* (a faulty callback, with the tests of ONLY and EXCEPT exchanged)
SelectedSwapped(mode, clients, key) ==
    CASE mode = EmitAll -> TRUE
      [] mode = EmitOnly -> key \notin clientSet(clients)
      [] mode = EmitExcept -> key \in clientSet(clients)
      [] OTHER -> FALSE
Selected(mode, clients, key) ==
    CASE mode = EmitAll -> TRUE
      [] mode = EmitOnly -> key \in clientSet(clients)
      [] mode = EmitExcept -> key \notin clientSet(clients)
      [] OTHER -> FALSE

\* What sendMessage does when WriteMessage fails: h.RemoveClient(clientID).
\* (a faulty sendMessage, which only logs the error)
OnWriteErrorLogOnly == "emit_range"
OnWriteError == "rm_lad"

TargetLists == UNION {[1..n -> IDs] : n \in 0..MaxTargets}

\* Emit(message, mode, clients); in ALL mode the list is never read, and the
\* calls are made with none.
CallEmit(t) ==
    /\ pc[t] = "idle"
    /\ \E m \in EmitMsgs, mode \in Modes, cl \in TargetLists :
          /\ mode = EmitAll => cl = <<>>
          /\ loc' = [loc EXCEPT ![t] = [NoLoc EXCEPT !.op = "Emit", !.msg = m,
                                                     !.mode = mode, !.clients = cl,
                                                     !.snap = Clients]]
    /\ Goto(t, "emit_range")
    /\ UNCHANGED hubVars

\* h.Clients.Range(callback): the next key for which the callback sends, or
\* the end of the iteration.  (For a key the mode leaves out, the callback
\* returns true at once and touches nothing: those visits are not steps.)
EmitRange(t) ==
    /\ pc[t] = "emit_range"
    /\ LET todo == {k \in RangeKeys(Clients, loc[t].visited) :
                       Selected(loc[t].mode, loc[t].clients, k)}
       IN \/ \E k \in todo :
                /\ loc' = [loc EXCEPT ![t].visited = @ \cup {k}, ![t].id = k]
                /\ Goto(t, "send_load")
          \/ /\ RangeMayEnd(todo, loc[t].snap, loc[t].visited)
             /\ Goto(t, "done")
             /\ UNCHANGED loc
    /\ UNCHANGED hubVars

\* The tasks that are inside a write to connection c: sendMessage at
\* SetWriteDeadline / WriteMessage, or a read loop at the WriteJSON of its
\* error message.
Writers(c) ==
    {u \in Tasks :
        \/ pc[u] = "send_write" /\ loc[u].conn = c
        \/ pc[u] = "srv_dispatch" /\ loc[u].conn = c /\ loc[u].msg.event \notin Events}

\* sendMessage and the read loop take no lock before they write: a task
\* enters its write whoever else is inside one.
\* (a hub that serializes the writes to a session)
WriteAdmittedAlone(t, c) == Writers(c) \ {t} = {}
WriteAdmitted(t, c) == TRUE

\* sendMessage: h.Clients.Load(clientID), then json.Marshal(msg)
SendLoad(t) ==
    /\ pc[t] = "send_load"
    /\ IF Load(Clients, loc[t].id)
       THEN /\ jsonMarshal(loc[t].msg).err \/ WriteAdmitted(t, connOf[loc[t].id])
            /\ loc' = [loc EXCEPT ![t] =
                           IF jsonMarshal(loc[t].msg).err THEN SendReturn(@)
                           ELSE [@ EXCEPT !.conn = connOf[loc[t].id]]]
            /\ Goto(t, IF jsonMarshal(loc[t].msg).err THEN AfterSend ELSE "send_write")
       ELSE /\ loc' = [loc EXCEPT ![t] = SendReturn(@)]
            /\ Goto(t, AfterSend)
    /\ UNCHANGED hubVars

\* sendMessage: SetWriteDeadline, WriteMessage, and RemoveClient on an error.
\* A connection supports one writer at a time: when another task is inside a
\* write to it, the writes race, and the library may panic ("concurrent
\* write to websocket connection").
SendWrite(t) ==
    /\ pc[t] = "send_write"
    /\ \/ \E ok \in WriteResults(loc[t].conn) :
             /\ LET l == [loc[t] EXCEPT !.attempts[loc[t].id] = @ + 1,
                                          !.failed = IF ok THEN @ ELSE @ \cup {loc[t].id}]
                IN loc' = [loc EXCEPT ![t] = IF ok THEN SendReturn(l) ELSE l]
             /\ Goto(t, IF ok THEN AfterSend ELSE OnWriteError)
       \/ /\ Writers(loc[t].conn) /= {t}
          /\ Goto(t, "panic")
          /\ UNCHANGED loc
    /\ UNCHANGED hubVars

----------------------------------------------------------------------------
\* Shutdown()
CallShutdown(t) ==
    /\ pc[t] = "idle"
    /\ loc' = [loc EXCEPT ![t] = [NoLoc EXCEPT !.op = "Shutdown", !.snap = Clients]]
    /\ Goto(t, "sd_range")
    /\ UNCHANGED hubVars

\* h.Clients.Range: _ = client.Conn.Close() for each client
ShutdownRange(t) ==
    /\ pc[t] = "sd_range"
    /\ \/ \E k \in RangeKeys(Clients, loc[t].visited) :
             /\ closed' = Close(closed, connOf[k])
             /\ loc' = [loc EXCEPT ![t].visited = @ \cup {k}]
             /\ UNCHANGED pc
       \/ /\ RangeMayEnd(Clients, loc[t].snap, loc[t].visited)
          /\ Goto(t, IF DB THEN "sd_disconnect" ELSE "done")
          /\ UNCHANGED <<closed, loc>>
    /\ UNCHANGED <<Clients, connOf, Data, nconn, issued, Events, DB, mirror, connected>>

\* h.DB.Database().Client().Disconnect(ctx)
ShutdownDisconnect(t) ==
    /\ pc[t] = "sd_disconnect"
    /\ connected' = FALSE
    /\ Goto(t, "done")
    /\ UNCHANGED <<Clients, connOf, Data, closed, nconn, issued, Events, DB, mirror, loc>>

----------------------------------------------------------------------------
\* The error message sent back for an event no handler is bound to.
\* (a faulty reply, without the event name)
ErrorReplyNoName(event) == [event |-> "error", data |-> <<"Event not found: ", "">>]
ErrorReply(event) == [event |-> "error", data |-> <<"Event not found: ", event>>]

\* What the read loop does when ReadJSON fails: break, and the deferred
\* h.RemoveClient(clientID) runs.
\* (a faulty loop, which returns without the removal)
OnReadErrorReturn == "done"
OnReadError == "rm_lad"

\* What the read loop does after a handler has returned an error: log it.
\* (a faulty loop, which ends on a handler's error)
OnHandlerErrorBreak == "rm_lad"
OnHandlerError == "srv_next"

\* Server(w, r)
CallServer(t) ==
    /\ pc[t] = "idle"
    /\ issued + Cardinality(Adding) < MaxIDs
    /\ nconn + Cardinality(Upgrading) < MaxConns
    /\ loc' = [loc EXCEPT ![t] = [NoLoc EXCEPT !.op = "Server"]]
    /\ Goto(t, "srv_upgrade")
    /\ UNCHANGED hubVars

\* h.Upgrader.Upgrade(w, r, nil): a new connection, or an error and return
ServerUpgrade(t) ==
    /\ pc[t] = "srv_upgrade"
    /\ \/ /\ nconn' = nconn + 1
          /\ loc' = [loc EXCEPT ![t].conn = nconn + 1]
          /\ Goto(t, "add_store")
       \/ /\ Goto(t, "done")
          /\ UNCHANGED <<nconn, loc>>
    /\ UNCHANGED <<Clients, connOf, Data, closed, issued, Events, DB, mirror, connected>>

\* conn.ReadJSON(&msg) returns: an error on a closed connection; on an open
\* one a decoded message, or an error (a malformed frame, the peer is gone).
ServerRead(t) ==
    /\ pc[t] = "srv_read"
    /\ \/ /\ loc[t].conn \notin closed
          /\ \E m \in InMsgs : loc' = [loc EXCEPT ![t].msg = m]
          /\ Goto(t, "srv_dispatch")
       \/ /\ Goto(t, OnReadError)
          /\ UNCHANGED loc
    /\ UNCHANGED hubVars

\* h.Events[msg.Event]: the handler is called and its error logged, or the
\* error message is written to the connection (the write's result is dropped).
ServerDispatch(t) ==
    /\ pc[t] = "srv_dispatch"
    /\ IF loc[t].msg.event \in Events
       THEN \E handlerOK \in BOOLEAN :
               /\ loc' = [loc EXCEPT ![t].calls =
                             Append(@, [msg |-> loc[t].msg, conn |-> loc[t].conn]),
                                     ![t].handlerErr = ~handlerOK]
               /\ Goto(t, IF handlerOK THEN "srv_next" ELSE OnHandlerError)
       ELSE \/ /\ loc' = [loc EXCEPT ![t].replies =
                             Append(@, [conn |-> loc[t].conn,
                                        msg |-> ErrorReply(loc[t].msg.event)])]
               /\ Goto(t, "srv_next")
            \/ /\ Writers(loc[t].conn) /= {t}
               /\ Goto(t, "panic")
               /\ UNCHANGED loc
    /\ UNCHANGED hubVars

\* The end of the loop's body: msg goes out of scope, and the loop reads again.
ServerNext(t) ==
    /\ pc[t] = "srv_next"
    /\ loc' = [loc EXCEPT ![t].msg = NoMsg, ![t].calls = <<>>, ![t].handlerErr = FALSE,
                          ![t].replies = <<>>]
    /\ Goto(t, "srv_read")
    /\ UNCHANGED hubVars

----------------------------------------------------------------------------
\* A call has returned: the task is free for the next one.
Return(t) ==
    /\ pc[t] = "done"
    /\ Goto(t, "idle")
    /\ loc' = [loc EXCEPT ![t] = NoLoc]
    /\ UNCHANGED hubVars

\* The steps inside AddClient and RemoveClient.
ClientStep(t) ==
    \/ AddStore(t)
    \/ AddInsert(t)
    \/ RemoveLoadAndDelete(t)
    \/ RemoveClose(t)
    \/ RemoveDelete(t)

\* The hub's life cycle and broadcast: calls are made one at a time.
Next ==
    \E t \in Tasks :
          \/ Free(t) /\ CallAddClient(t)
          \/ Free(t) /\ CallRemoveClient(t)
          \/ Free(t) /\ CallEmit(t)
          \/ Free(t) /\ CallShutdown(t)
          \/ Free(t) /\ CallServer(t)
          \/ Quiescent /\ ServerRead(t)
          \/ ClientStep(t)
          \/ EmitRange(t)
          \/ SendLoad(t)
          \/ SendWrite(t)
          \/ ShutdownRange(t)
          \/ ShutdownDisconnect(t)
          \/ ServerUpgrade(t)
          \/ ServerDispatch(t)
          \/ ServerNext(t)
          \/ Return(t)

Spec == Init /\ [][Next]_vars

\* The metadata operations on the clients of the registry, one call at a time.
NextMeta ==
    \E t \in Tasks :
       \/ Free(t) /\ CallAddClient(t)
       \/ Free(t) /\ CallRemoveClient(t)
       \/ Free(t) /\ CallUpdateMetadata(t)
       \/ Free(t) /\ CallRemoveMetadata(t)
       \/ ClientStep(t)
       \/ MetadataLoad(t)
       \/ MetadataSet(t)
       \/ MetadataMongo(t)
       \/ Return(t)

SpecMeta == Init /\ [][NextMeta]_vars

\* Accepts and removals, with the steps of the calls interleaved freely.
NextAccept ==
    \E t \in Tasks :
       \/ FirstIdle(t) /\ CallAddClient(t)
       \/ FirstIdle(t) /\ CallRemoveClient(t)
       \/ FirstIdle(t) /\ CallServer(t)
       \/ ServerUpgrade(t)
       \/ ServerRead(t)
       \/ ServerDispatch(t)
       \/ ServerNext(t)
       \/ ClientStep(t)
       \/ Return(t)

SpecAccept == Init /\ [][NextAccept]_vars

\* Searches among the clients of the registry and their metadata, one call
\* at a time.
NextSearch ==
    \E t \in Tasks :
       \/ Free(t) /\ CallAddClient(t)
       \/ Free(t) /\ CallRemoveClient(t)
       \/ Free(t) /\ CallUpdateMetadata(t)
       \/ Free(t) /\ CallSearchClient(t)
       \/ ClientStep(t)
       \/ MetadataLoad(t)
       \/ MetadataSet(t)
       \/ MetadataMongo(t)
       \/ SearchFind(t)
       \/ SearchLoad(t)
       \/ Return(t)

SpecSearch == Init /\ [][NextSearch]_vars

\* No mirror operation fails in the step: an InsertOne leaves its document,
\* a DeleteOne leaves none, an UpdateOne returns no error.
NoMirrorFailure ==
    \A u \in Tasks :
       /\ pc[u] = "add_insert" /\ pc'[u] /= "add_insert" => mirror'[loc[u].id].present
       /\ pc[u] = "rm_delete" /\ pc'[u] /= "rm_delete" => ~mirror'[loc[u].id].present
       /\ pc[u] = "um_mongo" /\ pc'[u] /= "um_mongo" => ~loc'[u].mongoErr

\* The key the concurrent metadata calls contend for.
RaceKey == "k1"

\* Metadata calls on one key of the clients of the registry, with the steps
\* of the calls interleaved freely, in the runs where no mirror operation
\* fails.
NextMirror ==
    /\ Alive
    /\ \E t \in Tasks :
          \/ FirstIdle(t) /\ CallAddClient(t)
          \/ FirstIdle(t) /\ CallUpdateMetadata(t) /\ loc'[t].key = RaceKey
          \/ FirstIdle(t) /\ CallRemoveMetadata(t) /\ loc'[t].key = RaceKey
          \/ AddStore(t)
          \/ AddInsert(t)
          \/ MetadataLoad(t)
          \/ MetadataSet(t)
          \/ MetadataMongo(t)
          \/ Return(t)
    /\ NoMirrorFailure

SpecMirror == Init /\ [][NextMirror]_vars

\* Accepts and broadcasts to all (which remove the clients whose write
\* fails), with the steps of the calls interleaved freely, in the runs where
\* no mirror operation fails.
NextEvict ==
    /\ Alive
    /\ \E t \in Tasks :
          \/ FirstIdle(t) /\ CallAddClient(t)
          \/ FirstIdle(t) /\ CallEmit(t) /\ loc'[t].mode = EmitAll
          \/ ClientStep(t)
          \/ EmitRange(t)
          \/ SendLoad(t)
          \/ SendWrite(t)
          \/ Return(t)
    /\ NoMirrorFailure

SpecEvict == Init /\ [][NextEvict]_vars

\* Accepts, removals, broadcasts to all and read loops, with the steps of
\* the calls interleaved freely.
NextRace ==
    /\ Alive
    /\ \E t \in Tasks :
          \/ FirstIdle(t) /\ CallAddClient(t)
          \/ FirstIdle(t) /\ CallRemoveClient(t)
          \/ FirstIdle(t) /\ CallEmit(t) /\ loc'[t].mode = EmitAll
          \/ FirstIdle(t) /\ CallServer(t)
          \/ ClientStep(t)
          \/ EmitRange(t)
          \/ SendLoad(t)
          \/ SendWrite(t)
          \/ ServerUpgrade(t)
          \/ ServerRead(t)
          \/ ServerDispatch(t)
          \/ ServerNext(t)
          \/ Return(t)

SpecRace == Init /\ [][NextRace]_vars

\* No Emit call is in progress.
NoEmit == \A u \in Tasks : loc[u].op /= "Emit"

\* One broadcast to all at a time, while other tasks add and remove clients,
\* with the steps of the calls interleaved freely.
NextEmitOne ==
    /\ Alive
    /\ \E t \in Tasks :
          \/ FirstIdle(t) /\ CallAddClient(t)
          \/ FirstIdle(t) /\ CallRemoveClient(t)
          \/ FirstIdle(t) /\ NoEmit /\ CallEmit(t) /\ loc'[t].mode = EmitAll
          \/ ClientStep(t)
          \/ EmitRange(t)
          \/ SendLoad(t)
          \/ SendWrite(t)
          \/ Return(t)

SpecEmitOne == Init /\ [][NextEmitOne]_vars

\* Read loops and shutdowns, with the steps of the calls interleaved freely.
NextLive ==
    \E t \in Tasks :
       \/ FirstIdle(t) /\ CallServer(t)
       \/ FirstIdle(t) /\ CallShutdown(t)
       \/ ServerUpgrade(t)
       \/ ServerRead(t)
       \/ ServerDispatch(t)
       \/ ServerNext(t)
       \/ ClientStep(t)
       \/ ShutdownRange(t)
       \/ ShutdownDisconnect(t)
       \/ Return(t)

\* The steps a goroutine takes by itself once it is scheduled: all but the
\* start of a call and the return of ReadJSON on an open connection (which
\* waits for the peer); ReadJSON on a closed connection returns its error.
LiveStep(t) ==
    \/ ServerUpgrade(t)
    \/ loc[t].conn \in closed /\ ServerRead(t)
    \/ ServerDispatch(t)
    \/ ServerNext(t)
    \/ ClientStep(t)
    \/ ShutdownRange(t)
    \/ ShutdownDisconnect(t)
    \/ Return(t)

\* The same under a fair scheduler: no goroutine that can run waits for ever.
SpecLive == Init /\ [][NextLive]_vars /\ \A t \in Tasks : WF_vars(LiveStep(t))

----------------------------------------------------------------------------
\* The elements of a list, and the clients an Emit call is to reach among
\* the registered ones.
ListItems(list) == {list[i] : i \in DOMAIN list}
Receivers(mode, list, registered) ==
    IF mode = EmitOnly THEN registered \cap ListItems(list)
    ELSE IF mode = EmitExcept THEN registered \ ListItems(list)
    ELSE registered

Returned(t, op) == pc[t] = "done" /\ loc[t].op = op

\* C1: after Shutdown returns the registry contains no client, and every
\* session registered when Shutdown was called is closed.
ShutdownEmptiesRegistry ==
    \A t \in Tasks :
       Returned(t, "Shutdown") =>
          /\ Clients = {}
          /\ \A k \in loc[t].snap : connOf[k] \in closed

\* C2: when Emit returns, every target whose write failed is out of the
\* registry with its session closed, and if a write failed, every client
\* selected by the mode still had its write attempted.
EmitEvictsFailedTargets ==
    \A t \in Tasks :
       Returned(t, "Emit") =>
          /\ \A k \in loc[t].failed : k \notin Clients /\ connOf[k] \in closed
          /\ loc[t].failed /= {} =>
                \A k \in Receivers(loc[t].mode, loc[t].clients, loc[t].snap) :
                   loc[t].attempts[k] >= 1

\* An Emit call has returned with one target's write failed and another
\* target's write done.
EmitEvictsWitness ==
    \E t \in Tasks :
       /\ Returned(t, "Emit")
       /\ \E k \in loc[t].failed, j \in loc[t].snap :
             /\ j \notin loc[t].failed
             /\ loc[t].attempts[j] = 1
             /\ j \in Clients

\* json.Marshal accepts the message.
Serializable(msg) == msg.data /= "unsupported"

\* The write attempts of an Emit call are exactly one to each of `to`.
WroteExactly(t, to) ==
    \A k \in IDs : loc[t].attempts[k] = IF k \in to THEN 1 ELSE 0

\* C3 as stated: with N clients registered and no write failure, Emit in
\* ALL mode makes exactly one write attempt to each registered client and
\* none to any other.
EmitAllWritesEachOnceAnyMessage ==
    \A t \in Tasks :
       Returned(t, "Emit") /\ loc[t].mode = EmitAll /\ loc[t].failed = {} =>
          WroteExactly(t, loc[t].snap)

\* C3, amended: the same for a message that json.Marshal accepts.
EmitAllWritesEachOnce ==
    \A t \in Tasks :
       /\ Returned(t, "Emit") /\ loc[t].mode = EmitAll /\ loc[t].failed = {}
       /\ Serializable(loc[t].msg)
       => WroteExactly(t, loc[t].snap)

\* An Emit in ALL mode has returned, without a failure, with two clients
\* registered.
EmitAllWitness ==
    \E t \in Tasks :
       /\ Returned(t, "Emit") /\ loc[t].mode = EmitAll /\ loc[t].failed = {}
       /\ Serializable(loc[t].msg)
       /\ Cardinality(loc[t].snap) = 2
       /\ \A k \in loc[t].snap : loc[t].attempts[k] = 1

\* C4 as stated: with no write failure, Emit in ONLY mode writes once to
\* each client of targetIDs \cap registered, in EXCEPT mode once to each of
\* registered \ targetIDs, and to no other.
EmitPartitionAnyMessage ==
    \A t \in Tasks :
       /\ Returned(t, "Emit") /\ loc[t].mode \in {EmitOnly, EmitExcept}
       /\ loc[t].failed = {}
       => WroteExactly(t, Receivers(loc[t].mode, loc[t].clients, loc[t].snap))

\* C4, amended: the same for a message that json.Marshal accepts.
EmitPartition ==
    \A t \in Tasks :
       /\ Returned(t, "Emit") /\ loc[t].mode \in {EmitOnly, EmitExcept}
       /\ loc[t].failed = {}
       /\ Serializable(loc[t].msg)
       => WroteExactly(t, Receivers(loc[t].mode, loc[t].clients, loc[t].snap))

\* An Emit in ONLY mode has returned whose list names one of the two
\* registered clients twice, and that client alone was written to.
EmitPartitionWitness ==
    \E t \in Tasks :
       /\ Returned(t, "Emit") /\ loc[t].mode = EmitOnly /\ loc[t].failed = {}
       /\ Serializable(loc[t].msg)
       /\ Cardinality(loc[t].snap) = 2
       /\ Len(loc[t].clients) = 2 /\ loc[t].clients[1] = loc[t].clients[2]
       /\ loc[t].attempts[loc[t].clients[1]] = 1
       /\ \E j \in loc[t].snap : loc[t].attempts[j] = 0

\* A task is inside RemoveClient(id), called while id was not registered.
InSecondRemove(t) ==
    /\ loc[t].op = "RemoveClient"
    /\ pc[t] \in {"rm_lad", "rm_close", "rm_delete"}
    /\ loc[t].id \notin loc[t].snap

\* C5 as stated: RemoveClient(id) for an id that is not registered (removed
\* before, or never registered) changes neither the registry, nor the
\* open/closed state of any session, nor the mirror.
SecondRemoveChangesNothing ==
    [][\A t \in Tasks : InSecondRemove(t) => UNCHANGED <<Clients, closed, mirror>>]_vars

\* C5, amended: such a call changes neither the registry nor the open/closed
\* state of any session; in the mirror it changes nothing but the record of
\* id, which it deletes if one is still there.
SecondRemoveOnlyDeletesRecord ==
    [][\A t \in Tasks :
          InSecondRemove(t) =>
             /\ UNCHANGED <<Clients, closed>>
             /\ mirror' \in {mirror, [mirror EXCEPT ![loc[t].id] = NoDoc]}]_vars

\* A second RemoveClient(id) has returned, of a client that had been
\* registered and whose session is closed.
SecondRemoveWitness ==
    \E t \in Tasks :
       /\ Returned(t, "RemoveClient")
       /\ loc[t].id \notin loc[t].snap
       /\ connOf[loc[t].id] \in closed
       /\ DB /\ ~loc[t].mongoErr
       /\ Clients /= {}

MetadataOps == {"UpdateMetadata", "RemoveMetadata"}

\* C6: for a registered id, when UpdateMetadata(id, k, v) returns the
\* client's metadata maps k to v, and when RemoveMetadata(id, k) returns k is
\* absent from it, whatever the mirror write did; and no step of either call
\* changes another key or another client's metadata.
MetadataReadAfterWrite ==
    /\ [](\A t \in Tasks :
             /\ Returned(t, "UpdateMetadata") /\ loc[t].found =>
                   Data[loc[t].id][loc[t].key] = loc[t].val
             /\ Returned(t, "RemoveMetadata") /\ loc[t].found =>
                   Data[loc[t].id][loc[t].key] = NoVal)
    /\ [][\A t \in Tasks :
             loc[t].op \in MetadataOps =>
                \A i \in IDs, k \in Keys :
                   (i /= loc[t].id \/ k /= loc[t].key) => Data'[i][k] = Data[i][k]]_vars

\* UpdateMetadata has returned for a registered client that holds another
\* key too, with persistence enabled and the mirror write failed.
MetadataWitness ==
    \E t \in Tasks :
       /\ Returned(t, "UpdateMetadata") /\ loc[t].found
       /\ DB /\ loc[t].mongoErr
       /\ mirror[loc[t].id].present
       /\ mirror[loc[t].id].data[loc[t].key] /= loc[t].val
       /\ \E k \in Keys \ {loc[t].key} : Data[loc[t].id][k] /= NoVal

\* The task takes the dispatch step of its read loop.
Dispatches(t) == pc[t] = "srv_dispatch" /\ pc'[t] /= "srv_dispatch"

\* C7: on a message whose event has no handler, the read loop writes to its
\* own session one message, event "error" and data "Event not found: " with
\* the event name, calls no handler, leaves the client registered, and reads
\* the next message.
UnknownEventReply ==
    [][\A t \in Tasks :
          /\ Dispatches(t) /\ loc[t].msg.event \notin Events =>
                /\ loc'[t].replies =
                      <<[conn |-> connOf[loc[t].id],
                         msg |-> [event |-> "error",
                                  data |-> <<"Event not found: ", loc[t].msg.event>>]]>>
                /\ loc'[t].calls = <<>>
                /\ UNCHANGED <<Clients, closed>>
                /\ loc[t].id \in Clients
                /\ pc'[t] = "srv_next"
          /\ pc[t] = "srv_next" /\ loc[t].replies /= <<>> /\ pc'[t] /= "srv_next" =>
                pc'[t] = "srv_read"]_vars

\* A read loop has answered the unbound event "nope".
UnknownEventWitness ==
    \E t \in Tasks :
       /\ pc[t] = "srv_next"
       /\ Len(loc[t].replies) = 1
       /\ loc[t].msg.event = "nope"

\* C8: in every interleaving of accepts and removals, an identity is bound
\* to one session for the whole run, and an identity enters the registry
\* only if it was never bound before (so none is registered twice, and none
\* comes back after its removal).
IdentityNeverReused ==
    [][\A i \in IDs :
          /\ connOf[i] /= 0 => connOf'[i] = connOf[i]
          /\ i \in Clients' \ Clients => connOf[i] = 0]_vars

\* A client has been removed and another one is registered.
IdentityWitness ==
    \E i \in IDs, j \in Clients :
       /\ connOf[i] /= 0
       /\ i \notin Clients
       /\ i /= j

\* C9: when Server returns after its read loop ended on a ReadJSON error,
\* the client is out of the registry, its session is closed and, with
\* persistence enabled and the mirror delete done, its record is gone; once
\* the loop has ended the task reads and dispatches no more.
ReadErrorEvicts ==
    /\ [](\A t \in Tasks :
             Returned(t, "Server") /\ loc[t].id /= 0 =>
                /\ loc[t].id \notin Clients
                /\ loc[t].conn \in closed
                /\ DB /\ ~loc[t].mongoErr => ~mirror[loc[t].id].present)
    /\ [][\A t \in Tasks :
             loc[t].op = "Server" /\ pc[t] \in {"rm_lad", "rm_close", "rm_delete", "done"}
                => pc'[t] \notin {"srv_read", "srv_dispatch", "srv_next"}]_vars

\* Server has returned after a read error on an open session; its own
\* RemoveClient found the client and the mirror delete succeeded.
ReadErrorWitness ==
    \E t \in Tasks :
       /\ Returned(t, "Server") /\ loc[t].id /= 0
       /\ loc[t].found
       /\ DB /\ ~loc[t].mongoErr

\* C10: on a message whose event has a handler, the read loop calls that
\* handler once with the message and its own session, writes no error
\* message, and, whether the handler fails or not, leaves the client
\* registered and its session open and reads the next message.
BoundHandlerRunsOnce ==
    [][\A t \in Tasks :
          /\ Dispatches(t) /\ loc[t].msg.event \in Events =>
                /\ loc'[t].calls = <<[msg |-> loc[t].msg, conn |-> connOf[loc[t].id]]>>
                /\ loc'[t].replies = <<>>
                /\ UNCHANGED <<Clients, closed>>
                /\ loc[t].id \in Clients
                /\ connOf[loc[t].id] \notin closed
                /\ pc'[t] = "srv_next"
          /\ pc[t] = "srv_next" /\ loc[t].calls /= <<>> /\ pc'[t] /= "srv_next" =>
                pc'[t] = "srv_read"]_vars

\* A handler has been called and has returned an error.
BoundHandlerWitness ==
    \E t \in Tasks :
       /\ pc[t] = "srv_next"
       /\ Len(loc[t].calls) = 1
       /\ loc[t].handlerErr

\* The steps at which a call issues an operation on the mirror.
MirrorSteps == {"add_insert", "rm_delete", "um_mongo", "sc_find"}

\* C11: on a hub without a collection (none asked for, or the connection
\* failed in NewHuginn) no call crashes, no call reaches a mirror operation,
\* and SearchClient returns an error.
NoMirrorNeverCrashes ==
    ~DB =>
       \A t \in Tasks :
          /\ pc[t] /= "panic"
          /\ pc[t] \in MirrorSteps => loc[t].op = "SearchClient"
          /\ Returned(t, "SearchClient") => ~loc[t].found

\* C12: with persistence enabled, SearchClient(key, value) returns a client
\* exactly when FindOne decoded a record whose data.<key> is value and whose
\* identity is in the registry; the client is the registry's entry of that
\* identity; otherwise it returns an error (the lookup failed, no record
\* matches, or the record matched is not of a registered client).  No step of
\* the call changes the registry, the mirror, a client's metadata or a
\* session.
SearchFindsLiveMatch ==
    /\ [](\A t \in Tasks :
             Returned(t, "SearchClient") /\ DB =>
                /\ loc[t].found =>
                      /\ loc[t].id \in Clients
                      /\ mirror[loc[t].id].present
                      /\ mirror[loc[t].id].data[loc[t].key] = loc[t].val
                      /\ loc[t].conn = connOf[loc[t].id]
                /\ ~loc[t].found =>
                      \/ loc[t].mongoErr
                      \/ /\ loc[t].id = 0
                         /\ \A i \in IDs : ~(mirror[i].present
                                             /\ mirror[i].data[loc[t].key] = loc[t].val)
                      \/ /\ loc[t].id /= 0
                         /\ mirror[loc[t].id].data[loc[t].key] = loc[t].val
                         /\ loc[t].id \notin Clients)
    /\ [][\A t \in Tasks :
             loc[t].op = "SearchClient" =>
                UNCHANGED <<Clients, connOf, Data, closed, mirror>>]_vars

\* SearchClient has returned a client while another registered client's
\* record holds another value under the key.
SearchWitness ==
    \E t \in Tasks :
       /\ Returned(t, "SearchClient") /\ DB /\ loc[t].found
       /\ \E j \in Clients \ {loc[t].id} :
             /\ mirror[j].present
             /\ mirror[j].data[loc[t].key] \notin {loc[t].val, NoVal}

\* SearchClient has returned an error after matching the record of a client
\* that is registered no more (its mirror delete had failed).
SearchStaleWitness ==
    \E t \in Tasks :
       /\ Returned(t, "SearchClient") /\ DB /\ ~loc[t].found
       /\ loc[t].id /= 0 /\ ~loc[t].mongoErr
       /\ Clients /= {}

\* No call is in flight: every task is idle or has returned.
AllReturned == \A t \in Tasks : pc[t] \in {"idle", "done"}

\* C13: with persistence enabled and no mirror operation failing, once every
\* call in flight has returned, the mirror record of each registered client
\* holds the same key-value mapping as the client's metadata in memory.
MirrorMatchesMemory ==
    DB /\ AllReturned =>
       \A i \in Clients : mirror[i].present /\ mirror[i].data = Data[i]

\* C14: with persistence enabled and no mirror operation failing, once every
\* call in flight has returned, every identity that has a mirror record is in
\* the registry.
NoOrphanRecord ==
    DB /\ AllReturned =>
       \A i \in IDs : mirror[i].present => i \in Clients

\* The task is in RemoveClient(i), past LoadAndDelete, having found the entry.
FoundEntry(t, i) ==
    /\ pc[t] \in {"rm_close", "rm_delete"}
    /\ loc[t].id = i
    /\ loc[t].found

\* C15: among the RemoveClient(id) calls that run concurrently (the read
\* loop's exit, an Emit whose write failed, an explicit removal), at most one
\* finds the entry; a call finds it exactly when it is in the registry as the
\* call's LoadAndDelete runs, and leaves it out; only a call that found the
\* entry closes a session, and it closes that client's session.
CleanupSingleShot ==
    /\ [](\A i \in IDs : Cardinality({t \in Tasks : FoundEntry(t, i)}) <= 1)
    /\ [][\A t \in Tasks :
             /\ pc[t] = "rm_lad" /\ pc'[t] /= "rm_lad" =>
                   /\ loc[t].id \in Clients <=> pc'[t] = "rm_close"
                   /\ loc[t].id \notin Clients'
             /\ pc[t] \in {"rm_lad", "rm_delete"} /\ pc'[t] /= pc[t] =>
                   closed' = closed
             /\ pc[t] = "rm_close" /\ pc'[t] /= "rm_close" =>
                   /\ loc[t].found
                   /\ closed' = closed \cup {connOf[loc[t].id]}]_vars

\* Two RemoveClient calls for one client, both begun while it was
\* registered: one has found the entry and is about to close the session,
\* the other has found it absent.
CleanupWitness ==
    \E t, u \in Tasks :
       /\ t /= u
       /\ pc[t] = "rm_close" /\ loc[t].found
       /\ pc[u] \in {"rm_delete", "done"}
       /\ \/ loc[u].op = "Server"
          \/ loc[u].op = "RemoveClient" /\ loc[u].id \in loc[u].snap
       /\ loc[u].id = loc[t].id
       /\ ~loc[u].found
       /\ loc[t].op = "Emit"

\* The task is in the read loop of client i.
InReadLoop(t, i) ==
    /\ loc[t].op = "Server"
    /\ loc[t].id = i
    /\ pc[t] \in {"srv_read", "srv_dispatch", "srv_next"}

\* C16: under fair scheduling, when Shutdown has been called with client i
\* registered and a read loop of i blocked in its read, that loop eventually
\* ends and i is out of the registry, its session closed.
ShutdownUnblocksReaders ==
    \A s \in Tasks, t \in Tasks, i \in IDs :
       (/\ loc[s].op = "Shutdown" /\ pc[s] = "sd_range" /\ i \in loc[s].snap
        /\ InReadLoop(t, i) /\ pc[t] = "srv_read")
       ~> (i \notin Clients /\ connOf[i] \in closed /\ ~InReadLoop(t, i))

\* A read loop has returned, its client removed, after a Shutdown called
\* while the client was registered closed the session.
ShutdownUnblocksWitness ==
    \E s \in Tasks, t \in Tasks :
       /\ loc[s].op = "Shutdown" /\ loc[t].id \in loc[s].visited
       /\ Returned(t, "Server") /\ loc[t].found
       /\ loc[t].id \notin Clients

\* C17: with persistence enabled, for every client registered when Shutdown
\* is called the deletion of its mirror record is issued before Shutdown
\* disconnects the mirror, and no read loop's cleanup issues its deletion
\* once the mirror is disconnected.  (Only RemoveClient(i) issues the
\* deletion of i's record, after it has taken i out of the registry for
\* good: a deletion issued before the disconnect means i is out of the
\* registry at the disconnect.)
ShutdownEvictsBeforeDisconnect ==
    [][\A t \in Tasks :
          /\ pc[t] = "sd_disconnect" /\ pc'[t] /= "sd_disconnect" =>
                loc[t].snap \cap Clients = {}
          /\ loc[t].op = "Server" /\ pc[t] = "rm_delete" /\ pc'[t] /= "rm_delete" =>
                connected]_vars

\* An Emit call in ALL mode has returned: no client got more than one write
\* attempt, every client registered from before the call until after its
\* return got exactly one, the process runs and every registered client is
\* one the hub created.
EmitAllDone(t) ==
    /\ \A k \in IDs : loc[t].attempts[k] <= 1
    /\ \A k \in loc[t].snap \cap Clients : loc[t].attempts[k] = 1
    /\ Alive
    /\ \A k \in Clients : connOf[k] /= 0

\* C18 as stated: the above for every Emit call in ALL mode that runs while
\* other tasks add and remove clients.
EmitAllUnderMutationAnyMessage ==
    \A t \in Tasks :
       Returned(t, "Emit") /\ loc[t].mode = EmitAll => EmitAllDone(t)

\* C18, amended: the same for a message that json.Marshal accepts.
EmitAllUnderMutation ==
    \A t \in Tasks :
       Returned(t, "Emit") /\ loc[t].mode = EmitAll /\ Serializable(loc[t].msg)
       => EmitAllDone(t)

\* An Emit in ALL mode has returned having written once to a client that was
\* registered throughout, and having passed over a client that another task
\* added during the call.
EmitAllUnderMutationWitness ==
    \E t \in Tasks :
       /\ Returned(t, "Emit") /\ loc[t].mode = EmitAll /\ Serializable(loc[t].msg)
       /\ \E k \in loc[t].snap \cap Clients : loc[t].attempts[k] = 1
       /\ \E j \in Clients \ loc[t].snap : loc[t].attempts[j] = 0

\* The task has loaded a client whose session is c and is about to enter the
\* write of a message json.Marshal accepts.
AboutToWrite(u, c) ==
    /\ pc[u] = "send_load"
    /\ Load(Clients, loc[u].id)
    /\ connOf[loc[u].id] = c
    /\ Serializable(loc[u].msg)

\* C19: the hub does not serialize the writes to a session: while a task is
\* inside a write to a session (an Emit's sendMessage, or the read loop's
\* error message), any other task about to write to that session can enter
\* its write too.
WritesNotSerialized ==
    \A u \in Tasks, c \in Conns :
       Writers(c) \ {u} /= {} /\ AboutToWrite(u, c) =>
          ENABLED (SendLoad(u) /\ pc'[u] = "send_write")

\* Two Emit calls are inside a write to the same session at the same time.
TwoEmitsWriteWitness ==
    \E t, u \in Tasks :
       /\ t /= u
       /\ pc[t] = "send_write" /\ pc[u] = "send_write"
       /\ loc[t].conn = loc[u].conn
       /\ loc[t].op = "Emit" /\ loc[u].op = "Emit"

\* An Emit call is inside a write to a client's session while that client's
\* read loop is at the write of its error message.
EmitAndReplyWriteWitness ==
    \E t, u \in Tasks :
       /\ pc[t] = "send_write" /\ loc[t].op = "Emit"
       /\ pc[u] = "srv_dispatch" /\ loc[u].msg.event \notin Events
       /\ loc[t].conn = loc[u].conn

\* The task takes the step at pc label.
Leaves(t, label) == pc[t] = label /\ pc'[t] /= label

\* C20: RemoveClient closes the session only after it has taken the entry
\* out of the registry, and an identity taken out never comes back; a
\* sendMessage enters its write only for an identity it has just found in
\* the registry.  So an Emit that starts after RemoveClient(id) has returned
\* finds id neither in Range nor in Load and never attempts a write to its
\* session: a write to the closed session of a removed client comes from a
\* sendMessage that loaded the client before the removal.  That write fails,
\* and the RemoveClient it triggers finds no entry, closes nothing and leaves
\* the registry as it is.
RemovalPrecedesClose ==
    [][/\ \A t \in Tasks :
             /\ Leaves(t, "rm_close") =>
                   /\ loc[t].id \notin Clients
                   /\ closed' = closed \cup {connOf[loc[t].id]}
             /\ Leaves(t, "emit_range") /\ pc'[t] = "send_load" =>
                   loc'[t].id \in Clients
             /\ Leaves(t, "send_load") /\ pc'[t] = "send_write" =>
                   loc[t].id \in Clients
             /\ Leaves(t, "send_write") /\ loc[t].id \notin Clients
                /\ loc[t].conn \in closed =>
                   pc'[t] \in {"rm_lad", "panic"}
             /\ loc[t].op = "Emit" /\ Leaves(t, "rm_lad") /\ loc[t].id \notin Clients =>
                   /\ pc'[t] /= "rm_close"
                   /\ UNCHANGED <<Clients, closed>>
       /\ \A k \in IDs : connOf[k] /= 0 /\ k \notin Clients => k \notin Clients']_vars

\* An Emit's write to a client has failed on the session that a
\* RemoveClient call, begun after the Emit loaded the client and returned
\* since, has closed; the client is out of the registry.
LateWriteWitness ==
    \E t, u \in Tasks :
       /\ loc[t].op = "Emit" /\ pc[t] = "rm_lad"
       /\ loc[t].id \notin Clients
       /\ loc[t].conn \in closed
       /\ Returned(u, "RemoveClient") /\ loc[u].id = loc[t].id /\ loc[u].found

====
